---- MODULE Spec2Model ----
(***************************************************************************)
(* State-machine model of the domain agent: the session store (store.py),  *)
(* the generator and the availability checker (agents.py), the search      *)
(* oracle (model_checker.py) and the HTTP session driver (api_server.py).  *)
(*                                                                         *)
(* Python dicts are insertion-ordered: a dict is modelled as a sequence of *)
(* <<key, value>> pairs with pairwise distinct keys.                       *)
(* A domain name is the tuple of its dot-separated parts, <<label, tld>>.  *)
(***************************************************************************)
EXTENDS Integers, Sequences, FiniteSets, TLC

\* ------------------------------------------------------------------ bounds
MaxNames == 2            \* size of the universe of names a creator can emit
MaxRespLen == 1          \* longest list a creator response carries
MaxGoal == 2             \* largest domain_goal a client configures
MaxLoop == 2             \* cap on the loop counter of a session
MaxRounds == 3           \* cap on the loop counter under SpecRounds
MaxDomains == 2          \* longest domain list given to check_domains_with_model

\* ------------------------------------------------------- program constants
MIN_AVAILABLE_DOMAINS == 3
MAX_GENERATION_ATTEMPTS == 5
CREATOR_GENERATION_COUNT == 1
MAX_LOOP_FAILURES == 20
PERSIST_SESSIONS_TO_FILE == TRUE
CHECKER_MODE == "MODEL"
SEARCH_MODEL == "o4-mini"

\* ------------------------------------------------------------- value sets
NoVal == "None"
Tags == {"A", "B", "C"}
TldFor(i) == IF i % 2 = 1 THEN "com" ELSE "io"
Names == {<<i, TldFor(i)>> : i \in 1..MaxNames}
Tlds == {"com", "io"}
Sids == {"s1"}

\* ------------------------------------------------------------ dict helpers
Range(s) == {s[i] : i \in 1..Len(s)}
Keys(d) == [i \in 1..Len(d) |-> d[i][1]]
KeySet(d) == {d[i][1] : i \in 1..Len(d)}
Get(d, k) == d[CHOOSE i \in 1..Len(d) : d[i][1] = k][2]
Put(d, k, v) ==
  IF k \in KeySet(d)
  THEN [i \in 1..Len(d) |-> IF d[i][1] = k THEN <<k, v>> ELSE d[i]]
  ELSE Append(d, <<k, v>>)
RECURSIVE Update(_, _)
Update(d, e) == IF e = <<>> THEN d ELSE Update(Put(d, Head(e)[1], Head(e)[2]), Tail(e))
RECURSIVE FromKeys(_, _)
FromKeys(items, v) ==
  IF items = <<>> THEN <<>> ELSE Update(<<<<Head(items), v>>>>, FromKeys(Tail(items), v))
Take(s, n) == SubSeq(s, 1, IF n < Len(s) THEN n ELSE Len(s))
SeqsUpTo(S, n) == UNION {[1..k -> S] : k \in 0..n}
IsDict(d) == \A i, j \in 1..Len(d) : d[i][1] = d[j][1] => i = j

\* --------------------------------------------------------------- variables
VARIABLES
  persist,        \* settings.PERSIST_SESSIONS_TO_FILE, fixed at process start
  files,          \* session files on disk: sid -> blob
  _cache,         \* SessionStore._cache: sid -> blob
  session_state,  \* api_server.session_state: sid -> state dict
  checker,        \* CheckerAgent: mode, search_model and its RDAPBootstrap
  gen,            \* the frame of the running generate_suggestions call
  chk,            \* the frame of the running filter_available call
  returned,       \* per session, the names create returned in earlier batches
  mc,             \* the frame of a check_domains_with_model call
  st,             \* what a direct client of the SessionStore has passed to it
  cr,             \* the frame of a CreatorAgent.create call
  rf,             \* the frame of a feedback refinement
  rs,             \* the frame of main.run_session
  th              \* the frames of handlers and store calls running in worker threads

vars == <<persist, files, _cache, session_state, checker, gen, chk, returned, mc, st, cr, rf, rs, th>>

\* ------------------------------------------------------------------- store
EmptyBlob == [suggested |-> <<>>, history |-> <<>>]

\* json.dump of a blob: the text of the session file, a JSON object whose
\* members are written in the order of the dict
json_dump(blob) ==
  <<<<"suggested", blob.suggested>>,
    <<"history", [i \in 1..Len(blob.history) |->
                   <<blob.history[i][1],
                     <<<<"status", blob.history[i][2].status>>,
                       <<"source", blob.history[i][2].source>>>>>>]>>>>

\* json.load of the text of a session file
json_load(text) ==
  [suggested |-> Get(text, "suggested"),
   history |-> LET h == Get(text, "history")
               IN [i \in 1..Len(h) |->
                     <<h[i][1], [status |-> Get(h[i][2], "status"),
                                 source |-> Get(h[i][2], "source")]>>]]

\* a read that looks into the cache in both modes
_read_cache_only(sid) ==
  IF sid \in DOMAIN _cache THEN _cache[sid] ELSE EmptyBlob

\* SessionStore._read: the file's (or the cache's) blob, the empty default if absent
_read(sid) ==
  IF persist
  THEN IF sid \in DOMAIN files THEN json_load(files[sid]) ELSE EmptyBlob
  ELSE IF sid \in DOMAIN _cache THEN _cache[sid] ELSE EmptyBlob

\* a write that puts the blob under every session id in use
_write_every(sid, blob) ==
  IF persist
  THEN /\ files' = [s \in DOMAIN files \cup {sid} |-> json_dump(blob)]
       /\ UNCHANGED _cache
  ELSE /\ _cache' = [s \in DOMAIN _cache \cup {sid} |-> blob]
       /\ UNCHANGED files

\* SessionStore._write
_write(sid, blob) ==
  IF persist
  THEN /\ files' = [s \in DOMAIN files \cup {sid} |->
                     IF s = sid THEN json_dump(blob) ELSE files[s]]
       /\ UNCHANGED _cache
  ELSE /\ _cache' = [s \in DOMAIN _cache \cup {sid} |-> IF s = sid THEN blob ELSE _cache[s]]
       /\ UNCHANGED files

\* SessionStore.seen
seen(sid) == Range(_read(sid).suggested)

\* the loop of add without its membership test
AppendMissing_always(suggested, names) == suggested \o names

\* the loop of SessionStore.add: append each name not yet in the list
RECURSIVE AppendMissing(_, _)
AppendMissing(suggested, names) ==
  IF names = <<>> THEN suggested
  ELSE AppendMissing(IF Head(names) \in Range(suggested) THEN suggested
                     ELSE Append(suggested, Head(names)), Tail(names))

\* add that registers the first name passed only
add_first_only(sid, names) ==
  [_read(sid) EXCEPT !.suggested = AppendMissing(@, Take(names, 1))]

\* add that leaves the stored list as it is
add_nothing(sid, names) == _read(sid)

\* add that stores the names passed in place of the list
add_replaces(sid, names) ==
  [_read(sid) EXCEPT !.suggested = AppendMissing(<<>>, names)]

\* the blob add has in hand after its loop
add_to(blob, names) == [blob EXCEPT !.suggested = AppendMissing(@, names)]

\* SessionStore.add, as the blob it writes
add(sid, names) == add_to(_read(sid), names)

\* a loop of record_results in which the last write wins
RECURSIVE SetDefaults_last_wins(_, _, _)
SetDefaults_last_wins(history, batch, status) ==
  IF batch = <<>> THEN history
  ELSE SetDefaults_last_wins(
         Put(history, Head(batch)[1], [status |-> status, source |-> Head(batch)[2]]),
         Tail(batch), status)

\* one loop of SessionStore.record_results: first write wins
RECURSIVE SetDefaults(_, _, _)
SetDefaults(history, batch, status) ==
  IF batch = <<>> THEN history
  ELSE SetDefaults(
         IF Head(batch)[1] \in KeySet(history) THEN history
         ELSE Append(history, <<Head(batch)[1],
                                [status |-> status, source |-> Head(batch)[2]]>>),
         Tail(batch), status)

\* the blob record_results has in hand after its two loops
record_to(blob, available, taken) ==
  [blob EXCEPT !.history = SetDefaults(SetDefaults(@, available, "AVAILABLE"), taken, "TAKEN")]

\* record_results with its two arguments taken for each other
record_results_swapped(sid, available, taken) == record_to(_read(sid), taken, available)

\* record_results that starts from an empty history
record_results_replaces(sid, available, taken) ==
  record_to([_read(sid) EXCEPT !.history = <<>>], available, taken)

\* SessionStore.record_results, as the blob it writes
record_results(sid, available, taken) == record_to(_read(sid), available, taken)

\* SessionStore.history
history(sid) == _read(sid).history

\* ----------------------------------------------------------------- creator
\* what the text-generation service answers to one creator call
CreatorResponses ==
  {[kind |-> k, value |-> <<>>] : k \in {"error", "nolist"}}
    \cup {[kind |-> "list", value |-> v] : v \in SeqsUpTo(Names, MaxRespLen) \ {<<>>}}

CreatorTag(tag) == "Creator" \o tag

\* CreatorAgent._generate_batch
_generate_batch(response, tag, count) ==
  IF count <= 0 THEN <<>>
  ELSE IF response.kind # "list" THEN <<>>
  ELSE FromKeys(Take(response.value, count), tag)

\* an Optional[int] argument: <<>> is None, <<n>> is n
NoCount == <<>>

\* the inner function run of CreatorAgent.create
run(tag, response, generation_count) ==
  _generate_batch(response, CreatorTag(tag),
                  IF generation_count # NoCount THEN generation_count[1]
                  ELSE CREATOR_GENERATION_COUNT)

\* CreatorAgent.create: `creators or ["A", "B", "C"]`
creators_or_default(creators) == IF creators = {} THEN Tags ELSE creators

\* CreatorAgent.create, one creator: `if tag in creators: ideas.update(run(tag, cfg))`
create_update(ideas, tag, responses, creators, generation_count) ==
  IF tag \in creators_or_default(creators)
  THEN Update(ideas, run(tag, responses[tag], generation_count))
  ELSE ideas

\* the count each creator's service call is asked for by create; 0 when the
\* creator is skipped or _generate_batch returns before the call
asked_counts(creators, generation_count) ==
  [tag \in Tags |->
     LET count == IF generation_count # NoCount THEN generation_count[1]
                  ELSE CREATOR_GENERATION_COUNT
     IN IF tag \in creators_or_default(creators) /\ count > 0 THEN count ELSE 0]

\* create without its closing filter on previously_seen
create_keeps_seen(responses, previously_seen, creators, generation_count) ==
  LET a == create_update(<<>>, "A", responses, creators, generation_count)
      b == create_update(a, "B", responses, creators, generation_count)
  IN create_update(b, "C", responses, creators, generation_count)

\* create in which a failed creator call ends the whole call with nothing
create_aborts_on_failure(responses, previously_seen, creators, generation_count) ==
  IF \E tag \in creators_or_default(creators) : responses[tag].kind = "error"
  THEN <<>>
  ELSE SelectSeq(create_keeps_seen(responses, previously_seen, creators, generation_count),
                 LAMBDA e : e[1] \notin previously_seen)

\* CreatorAgent.create: the creators run in the order A, B, C, and names in
\* previously_seen are dropped from the merged ideas
create(responses, previously_seen, creators, generation_count) ==
  LET a == create_update(<<>>, "A", responses, creators, generation_count)
      b == create_update(a, "B", responses, creators, generation_count)
      c == create_update(b, "C", responses, creators, generation_count)
  IN SelectSeq(c, LAMBDA e : e[1] \notin previously_seen)

\* ----------------------------------------------------------------- checker
\* what the IANA bootstrap download yields: a failure, or the table, which
\* maps com and not io
BootResponses == {[ok |-> FALSE, tlds |-> {}], [ok |-> TRUE, tlds |-> {"com"}]}

\* RDAPBootstrap._load_data
_load_data(bootstrap, resp) ==
  IF bootstrap.loaded THEN bootstrap
  ELSE [loaded |-> resp.ok, tld_map |-> bootstrap.tld_map \cup resp.tlds]

\* RDAPBootstrap.get_server_for_tld, after the load: is a server known
get_server_for_tld(bootstrap, tld) == tld \in bootstrap.tld_map

\* what the RDAP server answers to one domain query
HttpOutcomes ==
  {[kind |-> "error", status_code |-> 0]}
    \cup {[kind |-> "response", status_code |-> c] : c \in {200, 404, 500}}

\* name.split('.')[-1]
TldOf(name) == name[Len(name)]

\* a request error that skips the name instead of recording it
local_decision_skips_errors(has_server, http) ==
  IF ~has_server THEN "FREE"
  ELSE IF http.kind = "error" THEN "SKIP"
  ELSE IF http.status_code = 200 THEN "TAKEN" ELSE "FREE"

\* the decision of one iteration of CheckerAgent._filter_with_local_http
local_decision(has_server, http) ==
  IF ~has_server THEN "FREE"
  ELSE IF http.kind = "error" THEN "TAKEN"
  ELSE IF http.status_code = 200 THEN "TAKEN" ELSE "FREE"

\* what the search model answers about one name: the call raises, or its
\* output parses as a JSON object, as other JSON, or is not JSON at all;
\* value is what the object (or the regex fallback) holds for the name
LlmJsonValues == {"MISSING", "OK", "NOT", "ok", "not", "MAYBE", "NONSTRING"}
LlmTextValues == {"MISSING", "OK", "NOT", "ok", "not"}
LlmOutcomes ==
  {[kind |-> "error", value |-> "MISSING"], [kind |-> "json_other", value |-> "MISSING"]}
    \cup {[kind |-> "json", value |-> v] : v \in LlmJsonValues}
    \cup {[kind |-> "text", value |-> v] : v \in LlmTextValues}

\* str.upper on the status strings
Upper(v) == IF v = "ok" THEN "OK" ELSE IF v = "not" THEN "NOT" ELSE v

\* a failed search call that counts the name as free
llm_decision_free_on_error(llm) ==
  IF llm.kind \in {"error", "json_other"} THEN "FREE"
  ELSE IF llm.value = "NONSTRING" THEN "TAKEN"
  ELSE IF Upper(llm.value) = "NOT" THEN "FREE" ELSE "TAKEN"

\* the decision of one iteration of CheckerAgent._filter_with_llm_search
llm_decision(llm) ==
  IF llm.kind \in {"error", "json_other"} THEN "TAKEN"
  ELSE IF llm.value = "NONSTRING" THEN "TAKEN"
  ELSE LET held == IF llm.kind = "text" THEN Upper(llm.value) ELSE llm.value
           status == Upper(IF held = "MISSING" THEN "UNKNOWN" ELSE held)
       IN IF status = "OK" THEN "TAKEN"
          ELSE IF status = "NOT" THEN "FREE"
          ELSE "TAKEN"

\* ------------------------------------------------------- questions, prompt
\* the inputs a client sends and the texts the text-generation service returns
Briefs == {"brief"}
SynthOutputs == {"prompt"}
AnswerPayloads == {<<<<"q1", "yes">>>>}
SettingsPayloads ==
  [active_creators : {{"A"}}, generation_count : {2}, domain_goal : 0..MaxGoal]
QuestionResponses ==
  {[kind |-> "error", data |-> <<>>],
   [kind |-> "json", data |-> <<<<"questions", "Q?">>>>]}

\* the order of the keys under sorted(): "q1" < "q2" < "questions"
KeyRank(k) == IF k = "q1" THEN 1 ELSE IF k = "q2" THEN 2 ELSE 3
RECURSIVE SortedByKey(_)
SortedByKey(d) ==
  IF d = <<>> THEN <<>>
  ELSE LET m == CHOOSE i \in 1..Len(d) : \A j \in 1..Len(d) : KeyRank(d[i][1]) <= KeyRank(d[j][1])
       IN <<d[m]>> \o SortedByKey([i \in 1..(Len(d) - 1) |-> IF i < m THEN d[i] ELSE d[i + 1]])

\* QuestionAgent.ask, as the question map {q["id"]: q["text"]} of its result
QuestionAgent_ask(resp) ==
  IF resp.kind = "error"
  THEN <<<<"q1", "What is the primary purpose?">>, <<"q2", "Who is the target audience?">>>>
  ELSE SortedByKey(resp.data)

\* int(k[1:]) succeeds
IntKey(k) == k \in {"q1", "q2"}
ignore_answers == {"no", "none", "n/a", "", "no comment"}

\* PromptSynthesizerAgent.synthesize: the (question, answer) pairs it keeps
synthesize_pairs(answers, question_map) ==
  SelectSeq(SortedByKey(question_map),
            LAMBDA e : /\ (IF e[1] \in KeySet(answers) THEN Get(answers, e[1]) ELSE "")
                            \notin ignore_answers
                       /\ e[2] # "")

\* PromptSynthesizerAgent.synthesize; "raise" when a question id is not q<int>
synthesize(brief, answers, question_map, service) ==
  IF \E k \in KeySet(question_map) : ~IntKey(k) THEN "raise"
  ELSE IF synthesize_pairs(answers, question_map) = <<>> THEN brief
  ELSE IF service = "error" THEN "User Brief: " \o brief
  ELSE service

\* ------------------------------------------------------------------ frames
IdleChk == [pc |-> "idle", candidates |-> <<>>, todo |-> <<>>,
            available |-> <<>>, taken |-> <<>>,
            errored |-> {}, nolookup |-> {}, definite |-> {}]
IdleGen == [pc |-> "idle", sid |-> NoVal, status |-> 0, desired |-> 0,
            counts |-> <<>>, asked |-> <<>>, available |-> <<>>, taken |-> <<>>, attempts |-> 0,
            previously_seen |-> {}, ideas |-> <<>>, generated |-> {},
            all_one |-> TRUE, all_zero |-> TRUE,
            out |-> [available |-> <<>>, taken |-> <<>>, history |-> <<>>]]
IdleMc == [pc |-> "idle", domains |-> <<>>, result |-> <<>>, failed |-> FALSE]
IdleSt == [added |-> {}, dup |-> FALSE, first |-> <<>>, reclassified |-> {},
           ref |-> EmptyBlob]
IdleCr == [pc |-> "idle", responses |-> <<>>, previously_seen |-> {},
           creators |-> {}, generation_count |-> <<>>, ideas |-> <<>>]
IdleRf == [pc |-> "idle", brief |-> "", liked |-> <<>>, taken |-> <<>>,
           disliked |-> <<>>, service |-> "", new_brief |-> "", summary |-> <<>>,
           called |-> FALSE, resp |-> [kind |-> "", data |-> <<>>],
           asked_with |-> <<>>, questions |-> <<>>]
IdleRs == [pc |-> "idle", session_id |-> NoVal, initial_brief |-> "",
           current_brief |-> "", failures |-> 0, loop_count |-> 0,
           last_feedback_summary |-> <<>>, questions |-> <<>>, typed |-> "",
           error |-> "", exit_code |-> 0]

IdleFb == [pc |-> "idle", sid |-> NoVal, brief |-> "", liked |-> <<>>,
           taken |-> <<>>, disliked |-> <<>>, summary |-> <<>>]
IdleCall == [pc |-> "idle", blob |-> EmptyBlob, names |-> <<>>,
             available |-> <<>>, taken |-> <<>>]
IdleTh == [fb |-> IdleFb, ta |-> IdleCall, tr |-> IdleCall]

InitStore ==
  /\ files = <<>>
  /\ _cache = <<>>
  /\ session_state = <<>>
  /\ gen = IdleGen
  /\ chk = IdleChk
  /\ returned = [s \in Sids |-> {}]
  /\ mc = IdleMc
  /\ st = IdleSt
  /\ cr = IdleCr
  /\ rf = IdleRf
  /\ rs = IdleRs
  /\ th = IdleTh

\* the process as settings.py configures it
Init ==
  /\ InitStore
  /\ persist = PERSIST_SESSIONS_TO_FILE
  /\ checker = [mode |-> CHECKER_MODE, search_model |-> SEARCH_MODEL,
                bootstrap |-> [loaded |-> FALSE, tld_map |-> {}]]

\* --------------------------------------------------------- session driver
\* a key a state dict does not hold
Unset == [set |-> FALSE, value |-> <<>>]

SetState(sid, state) ==
  session_state' = [s \in DOMAIN session_state \cup {sid} |->
                      IF s = sid THEN state ELSE session_state[s]]

\* Bookkeeping kept next to each session's state: start_status is the HTTP
\* status of the response of start_session, feedbacks counts the
\* give_feedback calls that reached the loop increment, taken_round is the
\* loop counter at which state["taken"] was stored, other_round tells that
\* some refine_brief call was given names stored under another loop counter.
\* POST /sessions. store.new() writes the empty blob under a fresh id; the
\* closing store.set_question_map is not a method of SessionStore, so the
\* handler raises after session_state[sid] is set.
start_session(sid, initial_brief, qresp) ==
  /\ sid \notin DOMAIN session_state
  /\ sid \notin DOMAIN files \cup DOMAIN _cache
  /\ _write(sid, EmptyBlob)
  /\ SetState(sid, [brief |-> initial_brief, loop |-> 1,
                    question_map |-> QuestionAgent_ask(qresp),
                    prompt |-> NoVal, answers |-> Unset, settings |-> Unset,
                    available |-> Unset, taken |-> Unset,
                    start_status |-> 500, feedbacks |-> 0, taken_round |-> 0,
                    other_round |-> FALSE])
  /\ UNCHANGED <<persist, checker, gen, chk, returned, mc, st, cr, rf, rs, th>>

\* POST /sessions/{sid}/settings
configure_session(sid, payload) ==
  /\ sid \in DOMAIN session_state
  /\ SetState(sid, [session_state[sid] EXCEPT !.settings = [set |-> TRUE, value |-> payload]])
  /\ UNCHANGED <<persist, files, _cache, checker, gen, chk, returned, mc, st, cr, rf, rs, th>>

\* POST /sessions/{sid}/answers
submit_answers(sid, answers, service) ==
  /\ sid \in DOMAIN session_state
  /\ LET state == session_state[sid]
         prompt == synthesize(state.brief, answers, state.question_map, service)
     IN /\ prompt # "raise"
        /\ SetState(sid, [state EXCEPT !.prompt = prompt,
                                       !.answers = [set |-> TRUE, value |-> answers]])
  /\ UNCHANGED <<persist, files, _cache, checker, gen, chk, returned, mc, st, cr, rf, rs, th>>

\* ---------------------------------------------------------------- feedback
FeedbackPayloads == {<<<<"liked.com", "reason">>>>}
RefineOutputs == {"refined"}
RefineQuestionResponses == {[kind |-> "error", data |-> <<>>]}

\* DirectionistAgent._build_feedback_summary: the joined parts, one for each
\* argument that is not empty, in the order liked, disliked, taken; the
\* string "" is the empty sequence
_build_feedback_summary(liked_domains, taken_domains, disliked_domains) ==
  (IF liked_domains # <<>> THEN <<<<"POSITIVE FEEDBACK", liked_domains>>>> ELSE <<>>)
    \o (IF disliked_domains # <<>> THEN <<<<"NEGATIVE FEEDBACK", disliked_domains>>>> ELSE <<>>)
    \o (IF taken_domains # <<>> THEN <<<<"already taken", taken_domains>>>> ELSE <<>>)
EmptySummary == <<>>

\* refine_brief that calls the rewrite service whatever the summary is
refine_brief_always_calls(original_brief, liked_domains, taken_domains, disliked_domains, service) ==
  LET feedback_summary ==
        _build_feedback_summary(liked_domains, taken_domains, disliked_domains)
  IN IF service = "error" THEN <<original_brief, feedback_summary, TRUE>>
     ELSE <<service, feedback_summary, TRUE>>

\* refine_brief whose failure branch returns no summary
refine_brief_drops_summary(original_brief, liked_domains, taken_domains, disliked_domains, service) ==
  LET feedback_summary ==
        _build_feedback_summary(liked_domains, taken_domains, disliked_domains)
  IN IF feedback_summary = EmptySummary THEN <<original_brief, EmptySummary, FALSE>>
     ELSE IF service = "error" THEN <<original_brief, EmptySummary, TRUE>>
     ELSE <<service, feedback_summary, TRUE>>

\* DirectionistAgent.refine_brief: the new brief, the summary, and whether
\* the rewrite service was called
refine_brief(original_brief, liked_domains, taken_domains, disliked_domains, service) ==
  LET feedback_summary ==
        _build_feedback_summary(liked_domains, taken_domains, disliked_domains)
  IN IF feedback_summary = EmptySummary THEN <<original_brief, EmptySummary, FALSE>>
     ELSE IF service = "error" THEN <<original_brief, feedback_summary, TRUE>>
     ELSE <<service, feedback_summary, TRUE>>

\* the fallback of RefinementQuestionAgent.ask
FallbackQuestions ==
  <<<<"q1", "What specific element did you like most?">>, <<"q2", "What was missing?">>>>

\* ask that returns the questions it found when one is missing
RefinementQuestionAgent_ask_partial(resp) ==
  IF resp.kind = "error" THEN FallbackQuestions
  ELSE SelectSeq(resp.data, LAMBDA e : e[1] \in {"q1", "q2"})

\* RefinementQuestionAgent.ask, as the question map of its result
RefinementQuestionAgent_ask(resp) ==
  IF resp.kind = "error" \/ ~({"q1", "q2"} \subseteq KeySet(resp.data))
  THEN FallbackQuestions
  ELSE <<<<"q1", Get(resp.data, "q1")>>, <<"q2", Get(resp.data, "q2")>>>>

\* POST /sessions/{sid}/feedback. store.set_question_map is not a method of
\* SessionStore: the handler raises there, before prompt, available and
\* taken are popped.
\* state["loop"] += 1
next_loop_resets(state) == 1
next_loop(state) == state.loop + 1

\* list(state.get("taken", {}).keys())
taken_names(state) == IF state.taken.set THEN Keys(state.taken.value) ELSE <<>>

\* POST /sessions/{sid}/feedback. store.set_question_map is not a method of
\* SessionStore: the handler raises there, after brief, loop and question_map
\* are stored and before prompt, available and taken are popped.
give_feedback(sid, liked, disliked, service, qresp) ==
  /\ sid \in DOMAIN session_state
  /\ LET state == session_state[sid]
         refined == refine_brief(state.brief, liked, taken_names(state), disliked, service)
     IN SetState(sid, [state EXCEPT !.brief = refined[1],
                                    !.loop = next_loop(state),
                                    !.question_map = RefinementQuestionAgent_ask(qresp),
                                    !.feedbacks = @ + 1,
                                    !.other_round =
                                       \/ @
                                       \/ /\ taken_names(state) # <<>>
                                          /\ state.taken_round # state.loop])
  /\ UNCHANGED <<persist, files, _cache, checker, gen, chk, returned, mc, st, cr, rf, rs, th>>

\* ------------------------------------------------- generate_suggestions
\* cfg.get(key, default) on state.get("settings", {})
DomainGoal(state) ==
  IF state.settings.set THEN state.settings.value.domain_goal ELSE MIN_AVAILABLE_DOMAINS
Counts(state) ==
  LET active == IF state.settings.set THEN state.settings.value.active_creators ELSE Tags
      n == IF state.settings.set THEN state.settings.value.generation_count ELSE 1
  IN [tag \in Tags |-> IF tag \in active THEN n ELSE 0]

\* the handler without its test of state["prompt"]
GenStart_no_prompt_check(sid) ==
  /\ gen.pc = "idle"
  /\ gen' = IF sid \notin DOMAIN session_state
            THEN [IdleGen EXCEPT !.pc = "done", !.sid = sid, !.status = 404]
            ELSE [IdleGen EXCEPT !.pc = "loop", !.sid = sid,
                                 !.desired = DomainGoal(session_state[sid]),
                                 !.counts = Counts(session_state[sid])]
  /\ UNCHANGED <<persist, files, _cache, session_state, checker, chk, returned, mc, st, cr, rf, rs, th>>

\* the guards of the handler and the set-up of the loop
GenStart(sid) ==
  /\ gen.pc = "idle"
  /\ gen' = IF sid \notin DOMAIN session_state
            THEN [IdleGen EXCEPT !.pc = "done", !.sid = sid, !.status = 404]
            ELSE IF session_state[sid].prompt \in {NoVal, ""}
            THEN [IdleGen EXCEPT !.pc = "done", !.sid = sid, !.status = 400]
            ELSE [IdleGen EXCEPT !.pc = "loop", !.sid = sid,
                                 !.desired = DomainGoal(session_state[sid]),
                                 !.counts = Counts(session_state[sid])]
  /\ UNCHANGED <<persist, files, _cache, session_state, checker, chk, returned, mc, st, cr, rf, rs, th>>

\* the while condition, with each of its bounds off by one
LoopGoesOn_attempts_le(available, desired, attempts, max_attempts) ==
  Len(available) < desired /\ attempts <= max_attempts
LoopGoesOn_available_le(available, desired, attempts, max_attempts) ==
  Len(available) <= desired /\ attempts < max_attempts
LoopGoesOn_stops_early(available, desired, attempts, max_attempts) ==
  Len(available) < desired /\ attempts + 1 < max_attempts

\* the while condition
LoopGoesOn(available, desired, attempts, max_attempts) ==
  Len(available) < desired /\ attempts < max_attempts

\* one more attempt: the arguments of creator_agent.create are evaluated
GenAttempt ==
  /\ gen.pc = "loop"
  /\ LoopGoesOn(gen.available, gen.desired, gen.attempts, MAX_GENERATION_ATTEMPTS)
  /\ gen' = [gen EXCEPT !.pc = "create", !.attempts = @ + 1,
                        !.previously_seen = seen(gen.sid), !.ideas = <<>>]
  /\ UNCHANGED <<persist, files, _cache, session_state, checker, chk, returned, mc, st, cr, rf, rs, th>>

\* creator_agent.create(state["prompt"], store.seen(sid), counts): counts is
\* passed as the third positional argument, creators, so `"A" in creators`
\* tests the keys of the dict, and generation_count stays None.
GenCreate ==
  /\ gen.pc = "create"
  /\ \E responses \in [Tags -> CreatorResponses] :
       LET ideas == create(responses, gen.previously_seen, DOMAIN gen.counts, NoCount)
       IN gen' = [gen EXCEPT !.pc = "add", !.ideas = ideas,
                             !.asked = asked_counts(DOMAIN gen.counts, NoCount),
                             !.generated = @ \cup KeySet(ideas)]
  /\ UNCHANGED <<persist, files, _cache, session_state, checker, chk, returned, mc, st, cr, rf, rs, th>>

\* store.add(sid, list(ideas.keys()))
GenAdd ==
  /\ gen.pc = "add"
  /\ _write(gen.sid, add(gen.sid, Keys(gen.ideas)))
  /\ returned' = [returned EXCEPT ![gen.sid] = @ \cup KeySet(gen.ideas)]
  /\ gen' = [gen EXCEPT !.pc = "filter"]
  /\ UNCHANGED <<persist, session_state, checker, chk, mc, st, cr, rf, rs, th>>

\* a batch that replaces the accumulated dict instead of being merged in
accumulate_overwrites(total, batch) == batch

\* available.update(avail_batch), taken.update(taken_batch)
accumulate(total, batch) == Update(total, batch)

\* available.update, taken.update, store.record_results
GenRecord ==
  /\ gen.pc = "filter"
  /\ chk.pc = "done"
  /\ gen' = [gen EXCEPT !.pc = "loop",
                        !.available = accumulate(@, chk.available),
                        !.taken = accumulate(@, chk.taken),
                        !.all_one = @ /\ Len(chk.available) = 1,
                        !.all_zero = @ /\ Len(chk.available) = 0]
  /\ _write(gen.sid, record_results(gen.sid, chk.available, chk.taken))
  /\ chk' = IdleChk
  /\ UNCHANGED <<persist, session_state, checker, returned, mc, st, cr, rf, rs, th>>

\* the SuggestionsOut the handler returns
SuggestionsOut(available, taken, hist) ==
  [available |-> Keys(available), taken |-> Keys(taken), history |-> hist]

\* the loop is left: state["available"], state["taken"] and the response
GenReturn ==
  /\ gen.pc = "loop"
  /\ ~LoopGoesOn(gen.available, gen.desired, gen.attempts, MAX_GENERATION_ATTEMPTS)
  /\ SetState(gen.sid, [session_state[gen.sid] EXCEPT
                          !.available = [set |-> TRUE, value |-> gen.available],
                          !.taken = [set |-> TRUE, value |-> gen.taken],
                          !.taken_round = session_state[gen.sid].loop])
  /\ gen' = [gen EXCEPT !.pc = "done", !.status = 200,
                        !.out = SuggestionsOut(gen.available, gen.taken, history(gen.sid))]
  /\ UNCHANGED <<persist, files, _cache, checker, chk, returned, mc, st, cr, rf, rs, th>>

\* the response is sent; the event loop takes the next generate request
GenDone ==
  /\ gen.pc = "done"
  /\ gen' = IdleGen
  /\ UNCHANGED <<persist, files, _cache, session_state, checker, chk, returned, mc, st, cr, rf, rs, th>>

\* ------------------------------------------------------- filter_available
\* CheckerAgent.filter_available, its dispatch and the early returns
filter_available(candidates) ==
  IF candidates = <<>>
  THEN [IdleChk EXCEPT !.pc = "done"]
  ELSE IF checker.mode = "MODEL" /\ checker.search_model = NoVal
  THEN [IdleChk EXCEPT !.pc = "done", !.candidates = candidates, !.taken = candidates]
  ELSE [IdleChk EXCEPT !.pc = "loop", !.candidates = candidates, !.todo = candidates]

\* avail_batch, taken_batch = checker_agent.filter_available(ideas): the call
GenFilter ==
  /\ gen.pc = "filter"
  /\ chk.pc = "idle"
  /\ chk' = filter_available(gen.ideas)
  /\ UNCHANGED <<persist, files, _cache, session_state, checker, gen, returned, mc, st, cr, rf, rs, th>>

\* the two places a name is put
available_after(available, decision, name, source) ==
  IF decision = "FREE" THEN Put(available, name, source) ELSE available
taken_after(taken, decision, name, source) ==
  IF decision = "TAKEN" THEN Put(taken, name, source) ELSE taken

\* where the loop over candidates.items() goes after one name
AfterName(todo) == IF Tail(todo) = <<>> THEN "done" ELSE "loop"

\* the oracle's definite not-registered answers: RDAP answers 404 for a
\* domain it has no record of; the search model answers NOT for the name
LocalNotRegistered(http) == http.kind = "response" /\ http.status_code = 404
LlmNotRegistered(llm) ==
  llm.kind \in {"json", "text"} /\ llm.value \in {"NOT", "not"}

\* one iteration of CheckerAgent._filter_with_local_http
CheckLocal ==
  /\ chk.pc = "loop"
  /\ checker.mode # "MODEL"
  /\ LET name == Head(chk.todo)[1]
         source == Head(chk.todo)[2]
     IN \E boot \in (IF checker.bootstrap.loaded THEN {[ok |-> TRUE, tlds |-> {}]}
                     ELSE BootResponses) :
          LET bootstrap == _load_data(checker.bootstrap, boot)
              has_server == get_server_for_tld(bootstrap, TldOf(name))
          IN \E http \in (IF has_server THEN HttpOutcomes
                          ELSE {[kind |-> "none", status_code |-> 0]}) :
               LET decision == local_decision(has_server, http)
               IN /\ checker' = [checker EXCEPT !.bootstrap = bootstrap]
                  /\ chk' = [chk EXCEPT
                       !.pc = AfterName(chk.todo),
                       !.todo = Tail(@),
                       !.available = available_after(@, decision, name, source),
                       !.taken = taken_after(@, decision, name, source),
                       !.errored = IF http.kind = "error" THEN @ \cup {name} ELSE @,
                       !.nolookup = IF ~has_server THEN @ \cup {name} ELSE @,
                       !.definite = IF LocalNotRegistered(http) THEN @ \cup {name} ELSE @]
  /\ UNCHANGED <<persist, files, _cache, session_state, gen, returned, mc, st, cr, rf, rs, th>>

\* one iteration of CheckerAgent._filter_with_llm_search
CheckModel ==
  /\ chk.pc = "loop"
  /\ checker.mode = "MODEL"
  /\ LET name == Head(chk.todo)[1]
         source == Head(chk.todo)[2]
     IN \E llm \in LlmOutcomes :
          LET decision == llm_decision(llm)
          IN chk' = [chk EXCEPT
               !.pc = AfterName(chk.todo),
               !.todo = Tail(@),
               !.available = available_after(@, decision, name, source),
               !.taken = taken_after(@, decision, name, source),
               !.errored = IF llm.kind = "error" THEN @ \cup {name} ELSE @,
               !.definite = IF LlmNotRegistered(llm) THEN @ \cup {name} ELSE @]
  /\ UNCHANGED <<persist, files, _cache, session_state, checker, gen, returned, mc, st, cr, rf, rs, th>>

\* ------------------------------------------------------------ specification
\* interactive_client.post blocks on each response: the client of a session
\* sends its next request when the response of the last one is in
ClientIdle == gen.pc = "idle"

\* the loop counter of the session is below the cap of the exploration
LoopBelow(sid, n) == sid \in DOMAIN session_state /\ session_state[sid].loop < n

Next ==
  \/ \E sid \in Sids, b \in Briefs, q \in QuestionResponses :
       ClientIdle /\ start_session(sid, b, q)
  \/ \E sid \in Sids, p \in SettingsPayloads :
       ClientIdle /\ configure_session(sid, p)
  \/ \E sid \in Sids, a \in AnswerPayloads, sv \in SynthOutputs :
       ClientIdle /\ submit_answers(sid, a, sv)
  \/ \E sid \in Sids, l \in FeedbackPayloads, d \in FeedbackPayloads,
        sv \in RefineOutputs, q \in RefineQuestionResponses :
       ClientIdle /\ LoopBelow(sid, MaxLoop) /\ give_feedback(sid, l, d, sv, q)
  \/ \E sid \in Sids : GenStart(sid)
  \/ GenAttempt
  \/ GenCreate
  \/ GenAdd
  \/ GenFilter
  \/ CheckModel
  \/ GenRecord
  \/ GenReturn
  \/ GenDone

Spec == Init /\ [][Next]_vars

\* the generate call runs on: each external call returns or raises
GenStep ==
  GenAttempt \/ GenCreate \/ GenAdd \/ GenFilter \/ CheckModel \/ GenRecord \/ GenReturn

FairSpec == Spec /\ WF_vars(GenStep)

\* ------------------------------------------- handlers in worker threads
\* generate_suggestions is an `async def` without an await: it runs on the
\* event loop from its first line to its return. The other handlers are
\* plain `def`: the event loop hands each to a worker thread and is free
\* again while the thread runs. A request is dispatched only while the event
\* loop is free.

\* give_feedback up to the call of the rewrite service: the arguments of
\* refine_brief are evaluated
FbStart(sid, liked, disliked) ==
  /\ th.fb.pc = "idle"
  /\ gen.pc = "idle"
  /\ sid \in DOMAIN session_state
  /\ th' = [th EXCEPT !.fb = [IdleFb EXCEPT !.pc = "refine", !.sid = sid,
                                            !.brief = session_state[sid].brief,
                                            !.liked = liked,
                                            !.taken = taken_names(session_state[sid]),
                                            !.disliked = disliked]]
  /\ UNCHANGED <<persist, files, _cache, session_state, checker, gen, chk, returned, mc, st, cr, rf, rs>>

\* refine_brief returns: state["brief"] and state["loop"] are written and the
\* question service is called
FbRefine(service) ==
  /\ th.fb.pc = "refine"
  /\ LET state == session_state[th.fb.sid]
         refined == refine_brief(th.fb.brief, th.fb.liked, th.fb.taken, th.fb.disliked, service)
     IN /\ SetState(th.fb.sid,
                    [state EXCEPT !.brief = refined[1],
                                  !.loop = next_loop(state),
                                  !.feedbacks = @ + 1,
                                  !.other_round =
                                     \/ @
                                     \/ /\ th.fb.taken # <<>>
                                        /\ state.taken_round # state.loop])
        /\ th' = [th EXCEPT !.fb.pc = "ask", !.fb.summary = refined[2]]
  /\ UNCHANGED <<persist, files, _cache, checker, gen, chk, returned, mc, st, cr, rf, rs>>

\* the question service returns: state["question_map"] is written and
\* store.set_question_map raises, which ends the handler
FbAsk(qresp) ==
  /\ th.fb.pc = "ask"
  /\ SetState(th.fb.sid, [session_state[th.fb.sid] EXCEPT
                            !.question_map = RefinementQuestionAgent_ask(qresp)])
  /\ th' = [th EXCEPT !.fb = IdleFb]
  /\ UNCHANGED <<persist, files, _cache, checker, gen, chk, returned, mc, st, cr, rf, rs>>

FbIdle == th.fb.pc = "idle"

NextThreads ==
  \/ \E sid \in Sids, b \in Briefs, q \in QuestionResponses :
       ClientIdle /\ FbIdle /\ start_session(sid, b, q)
  \/ \E sid \in Sids, a \in AnswerPayloads, sv \in SynthOutputs :
       ClientIdle /\ FbIdle /\ submit_answers(sid, a, sv)
  \/ \E sid \in Sids, l \in FeedbackPayloads, d \in FeedbackPayloads :
       LoopBelow(sid, MaxLoop) /\ FbStart(sid, l, d)
  \/ \E sv \in RefineOutputs : FbRefine(sv)
  \/ \E q \in RefineQuestionResponses : FbAsk(q)
  \/ \E sid \in Sids : GenStart(sid)
  \/ GenAttempt
  \/ GenCreate
  \/ GenAdd
  \/ GenFilter
  \/ CheckModel
  \/ GenRecord
  \/ GenReturn
  \/ GenDone

SpecThreads == Init /\ [][NextThreads]_vars

\* ------------------------------------------------------- two sessions
\* Session s2 has been through its first round (start, answers, one
\* generate call that found one name available and one taken) and goes on
\* with answers and feedback, while session s1 is created and runs from its
\* start. The handlers of s2 run in worker threads at any point of a
\* generate call of s1.
Sids2 == {"s1", "s2"}
RoundOneBlob ==
  [suggested |-> << <<1, TldFor(1)>>, <<2, TldFor(2)>> >>,
   history |-> << << <<2, TldFor(2)>>, [status |-> "AVAILABLE", source |-> CreatorTag("C")] >>,
                  << <<1, TldFor(1)>>, [status |-> "TAKEN", source |-> CreatorTag("B")] >> >>]
RoundOneState ==
  [brief |-> "brief", loop |-> 1,
   question_map |-> QuestionAgent_ask([kind |-> "error", data |-> <<>>]),
   prompt |-> "prompt", answers |-> [set |-> TRUE, value |-> <<<<"q1", "yes">>>>],
   settings |-> Unset,
   available |-> [set |-> TRUE, value |-> << << <<2, TldFor(2)>>, CreatorTag("C") >> >>],
   taken |-> [set |-> TRUE, value |-> << << <<1, TldFor(1)>>, CreatorTag("B") >> >>],
   start_status |-> 500, feedbacks |-> 0, taken_round |-> 1, other_round |-> FALSE]

InitTwo ==
  /\ persist = PERSIST_SESSIONS_TO_FILE
  /\ files = [s \in {"s2"} |-> json_dump(RoundOneBlob)]
  /\ _cache = <<>>
  /\ session_state = [s \in {"s2"} |-> RoundOneState]
  /\ checker = [mode |-> CHECKER_MODE, search_model |-> SEARCH_MODEL,
                bootstrap |-> [loaded |-> FALSE, tld_map |-> {}]]
  /\ gen = IdleGen
  /\ chk = IdleChk
  /\ returned = [s \in Sids |-> {}]
  /\ mc = IdleMc
  /\ st = IdleSt
  /\ cr = IdleCr
  /\ rf = IdleRf
  /\ rs = IdleRs
  /\ th = IdleTh

\* a step of the handlers called on session a
OpOn(a) ==
  \/ \E b \in Briefs, q \in QuestionResponses : start_session(a, b, q)
  \/ \E ans \in AnswerPayloads, sv \in SynthOutputs : submit_answers(a, ans, sv)
  \/ \E l \in FeedbackPayloads, d \in FeedbackPayloads,
        sv \in RefineOutputs, q \in RefineQuestionResponses :
       LoopBelow(a, MaxLoop) /\ give_feedback(a, l, d, sv, q)
  \/ GenStart(a)
  \/ /\ gen.sid = a
     /\ \/ GenAttempt
        \/ GenCreate
        \/ GenAdd
        \/ GenFilter
        \/ CheckModel
        \/ GenRecord
        \/ GenReturn
        \/ GenDone

NextTwo ==
  \/ \E b \in Briefs, q \in QuestionResponses : ClientIdle /\ start_session("s1", b, q)
  \/ \E ans \in AnswerPayloads, sv \in SynthOutputs :
       ClientIdle /\ submit_answers("s1", ans, sv)
  \/ \E l \in FeedbackPayloads, d \in FeedbackPayloads,
        sv \in RefineOutputs, q \in RefineQuestionResponses :
       ClientIdle /\ LoopBelow("s1", MaxLoop) /\ give_feedback("s1", l, d, sv, q)
  \/ \E ans \in AnswerPayloads, sv \in SynthOutputs : submit_answers("s2", ans, sv)
  \/ \E l \in FeedbackPayloads, d \in FeedbackPayloads,
        sv \in RefineOutputs, q \in RefineQuestionResponses :
       LoopBelow("s2", MaxLoop) /\ give_feedback("s2", l, d, sv, q)
  \/ GenStart("s1")
  \/ GenAttempt
  \/ GenCreate
  \/ GenAdd
  \/ GenFilter
  \/ CheckModel
  \/ GenRecord
  \/ GenReturn
  \/ GenDone

SpecTwo == InitTwo /\ [][NextTwo]_vars

\* ------------------------------------------------ rounds of one session
\* The same handlers for a client that keeps the default settings and goes
\* through MaxRounds rounds.
NextRounds ==
  \/ \E sid \in Sids, b \in Briefs, q \in QuestionResponses :
       ClientIdle /\ start_session(sid, b, q)
  \/ \E sid \in Sids, a \in AnswerPayloads, sv \in SynthOutputs :
       ClientIdle /\ submit_answers(sid, a, sv)
  \/ \E sid \in Sids, l \in FeedbackPayloads, d \in FeedbackPayloads,
        sv \in RefineOutputs, q \in RefineQuestionResponses :
       ClientIdle /\ LoopBelow(sid, MaxRounds) /\ give_feedback(sid, l, d, sv, q)
  \/ \E sid \in Sids : GenStart(sid)
  \/ GenAttempt
  \/ GenCreate
  \/ GenAdd
  \/ GenFilter
  \/ CheckModel
  \/ GenRecord
  \/ GenReturn
  \/ GenDone

SpecRounds == Init /\ [][NextRounds]_vars

\* ------------------------------------- the availability filter on its own
\* any batch of candidates a creator run can hand over
CandidateDicts ==
  {d \in SeqsUpTo(Names \X {CreatorTag(t) : t \in Tags}, MaxNames) : IsDict(d)}

InitChecker ==
  /\ InitStore
  /\ persist = PERSIST_SESSIONS_TO_FILE
  /\ checker \in {[mode |-> m, search_model |-> sm,
                   bootstrap |-> [loaded |-> FALSE, tld_map |-> {}]] :
                    m \in {"LOCAL", "MODEL"}, sm \in {NoVal, SEARCH_MODEL}}
  /\ checker.mode = "LOCAL" => checker.search_model # NoVal

FilterCall ==
  /\ chk.pc = "idle"
  /\ \E candidates \in CandidateDicts : chk' = filter_available(candidates)
  /\ UNCHANGED <<persist, files, _cache, session_state, checker, gen, returned, mc, st, cr, rf, rs, th>>

FilterReturn ==
  /\ chk.pc = "done"
  /\ chk' = IdleChk
  /\ UNCHANGED <<persist, files, _cache, session_state, checker, gen, returned, mc, st, cr, rf, rs, th>>

NextChecker == FilterCall \/ CheckLocal \/ CheckModel \/ FilterReturn

SpecChecker == InitChecker /\ [][NextChecker]_vars

\* ------------------------------------------ the search oracle on its own
\* what the Responses API call yields: it raises, or output_text parses as
\* a JSON object, or it does not parse and the regex finds (domain, status)
\* pairs in it
OracleEntries ==
  {d \in SeqsUpTo(Names \X {"OK", "NOT", "not"}, MaxNames) : IsDict(d)}
OracleOutputs ==
  {[kind |-> "error", entries |-> <<>>]}
    \cup {[kind |-> k, entries |-> e] : k \in {"json", "text"}, e \in OracleEntries}

\* model_checker.check_domains_with_model
check_domains_with_model(domains, output) ==
  IF domains = <<>> THEN <<>>
  ELSE IF output.kind = "json" THEN output.entries
  ELSE IF output.kind = "text"
  THEN [i \in 1..Len(output.entries) |->
          <<output.entries[i][1], Upper(output.entries[i][2])>>]
  ELSE FromKeys(domains, "NOT")

OracleCall ==
  /\ mc.pc = "idle"
  /\ \E domains \in SeqsUpTo(Names, MaxDomains), output \in OracleOutputs :
       mc' = [pc |-> "done", domains |-> domains,
              result |-> check_domains_with_model(domains, output),
              failed |-> domains # <<>> /\ output.kind = "error"]
  /\ UNCHANGED <<persist, files, _cache, session_state, checker, gen, chk, returned, st, cr, rf, rs, th>>

OracleReturn ==
  /\ mc.pc = "done"
  /\ mc' = IdleMc
  /\ UNCHANGED <<persist, files, _cache, session_state, checker, gen, chk, returned, st, cr, rf, rs, th>>

NextOracle == OracleCall \/ OracleReturn

SpecOracle == Init /\ [][NextOracle]_vars

\* --------------------------------------------- the session store on its own
\* a client that calls SessionStore directly, in either storage mode, on the
\* session store.new() created
StoreSid == "s1"
StoreSources == {CreatorTag(t) : t \in {"A", "B"}}
StoreBatches == {d \in SeqsUpTo(Names \X StoreSources, MaxNames) : IsDict(d)}

InitStoreClient ==
  /\ InitStore
  /\ persist \in BOOLEAN
  /\ checker = [mode |-> CHECKER_MODE, search_model |-> SEARCH_MODEL,
                bootstrap |-> [loaded |-> FALSE, tld_map |-> {}]]

\* store.new()
StoreNew ==
  /\ StoreSid \notin DOMAIN files \cup DOMAIN _cache
  /\ _write(StoreSid, EmptyBlob)
  /\ UNCHANGED <<persist, session_state, checker, gen, chk, returned, mc, st, cr, rf, rs, th>>

\* the classifications one record_results call gives a name
Classified(available, taken, n) ==
  {[status |-> "AVAILABLE", source |-> e[2]] : e \in {x \in Range(available) : x[1] = n}}
    \cup {[status |-> "TAKEN", source |-> e[2]] : e \in {x \in Range(taken) : x[1] = n}}

\* store.add(sid, names); st keeps the union of the names passed, whether
\* a name was passed a second time, and in ref the blob that the calls made
\* so far build when nothing stands between a write and the next read
StoreAdd ==
  /\ StoreSid \in DOMAIN files \cup DOMAIN _cache
  /\ \E names \in SeqsUpTo(Names, MaxNames) :
       /\ _write(StoreSid, add(StoreSid, names))
       /\ st' = [st EXCEPT !.ref.suggested = AppendMissing(@, names),
                           !.added = @ \cup Range(names),
                           !.dup = @ \/ Range(names) \cap st.added # {}
                                     \/ Cardinality(Range(names)) < Len(names)]
  /\ UNCHANGED <<persist, session_state, checker, gen, chk, returned, mc, cr, rf, rs, th>>

\* store.record_results(sid, available, taken); st keeps what the first call
\* that classified a name said of it, and the names a later call classified
\* differently
StoreRecord ==
  /\ StoreSid \in DOMAIN files \cup DOMAIN _cache
  /\ \E available \in StoreBatches, taken \in StoreBatches :
       LET now == KeySet(available) \cup KeySet(taken) IN
       /\ _write(StoreSid, record_results(StoreSid, available, taken))
       /\ st' = [st EXCEPT
            !.ref.history = SetDefaults(SetDefaults(@, available, "AVAILABLE"), taken, "TAKEN"),
            !.first = [n \in DOMAIN st.first \cup now |->
                         IF n \in DOMAIN st.first THEN st.first[n]
                         ELSE Classified(available, taken, n)],
            !.reclassified = @ \cup
               {n \in now \cap DOMAIN st.first :
                  Classified(available, taken, n) \cap st.first[n] = {}}]
  /\ UNCHANGED <<persist, session_state, checker, gen, chk, returned, mc, cr, rf, rs, th>>

NextStore == StoreNew \/ StoreAdd \/ StoreRecord

SpecStore == InitStoreClient /\ [][NextStore]_vars

\* --------------------------------------- store calls of two threads
\* One thread calls store.add and another store.record_results on the same
\* session of one SessionStore. Neither method takes a lock: each is a
\* _read, a change of the blob read, and a _write, and the other thread
\* runs in between. In file mode _read parses the file into a dict of the
\* caller's own; in memory mode it returns the dict held in _cache, so the
\* caller works on the stored object itself.
ThreadBatches == {<<>>} \cup {<<<<n, CreatorTag("A")>>>> : n \in Names}

\* the blob a call works on when it gets to its loop
InHand(call) == IF persist THEN call.blob ELSE _read(StoreSid)

\* add: blob = self._read(sid)
AddRead ==
  /\ th.ta.pc = "idle"
  /\ StoreSid \in DOMAIN files \cup DOMAIN _cache
  /\ \E names \in SeqsUpTo(Names, 1) \ {<<>>} :
       th' = [th EXCEPT !.ta = [IdleCall EXCEPT !.pc = "read", !.names = names,
                                               !.blob = _read(StoreSid)]]
  /\ UNCHANGED <<persist, files, _cache, session_state, checker, gen, chk, returned, mc, st, cr, rf, rs>>

\* add: the loop and self._write(sid, blob)
AddWrite ==
  /\ th.ta.pc = "read"
  /\ _write(StoreSid, add_to(InHand(th.ta), th.ta.names))
  /\ th' = [th EXCEPT !.ta = IdleCall]
  /\ UNCHANGED <<persist, session_state, checker, gen, chk, returned, mc, st, cr, rf, rs>>

\* record_results: blob = self._read(sid)
RecordRead ==
  /\ th.tr.pc = "idle"
  /\ StoreSid \in DOMAIN files \cup DOMAIN _cache
  /\ \E available \in ThreadBatches, taken \in ThreadBatches :
       th' = [th EXCEPT !.tr = [IdleCall EXCEPT !.pc = "read", !.available = available,
                                               !.taken = taken,
                                               !.blob = _read(StoreSid)]]
  /\ UNCHANGED <<persist, files, _cache, session_state, checker, gen, chk, returned, mc, st, cr, rf, rs>>

\* record_results: the two loops and self._write(sid, blob)
RecordWrite ==
  /\ th.tr.pc = "read"
  /\ _write(StoreSid, record_to(InHand(th.tr), th.tr.available, th.tr.taken))
  /\ th' = [th EXCEPT !.tr = IdleCall]
  /\ UNCHANGED <<persist, session_state, checker, gen, chk, returned, mc, st, cr, rf, rs>>

NextStoreThreads == StoreNew \/ AddRead \/ AddWrite \/ RecordRead \/ RecordWrite

SpecStoreThreads == InitStoreClient /\ [][NextStoreThreads]_vars

\* ------------------------------------------------- the generator on its own
\* a caller of CreatorAgent.create with any creator selection and count
CreateCounts == {NoCount, <<0>>, <<2>>}

CreateCall ==
  /\ cr.pc = "idle"
  /\ \E responses \in [Tags -> CreatorResponses], previously_seen \in SUBSET Names,
        creators \in SUBSET Tags, generation_count \in CreateCounts :
       cr' = [pc |-> "done", responses |-> responses,
              previously_seen |-> previously_seen, creators |-> creators,
              generation_count |-> generation_count,
              ideas |-> create(responses, previously_seen, creators, generation_count)]
  /\ UNCHANGED <<persist, files, _cache, session_state, checker, gen, chk, returned, mc, st, rf, rs, th>>

CreateReturn ==
  /\ cr.pc = "done"
  /\ cr' = IdleCr
  /\ UNCHANGED <<persist, files, _cache, session_state, checker, gen, chk, returned, mc, st, rf, rs, th>>

NextCreate == CreateCall \/ CreateReturn

SpecCreate == Init /\ [][NextCreate]_vars

\* ------------------------------------------- feedback refinement on its own
\* a driver that refines the brief and then asks the refinement questions,
\* as give_feedback and run_session both do
RefineLiked == {<<>>, <<<<"liked.com", "reason">>>>}
RefineDisliked == {<<>>, <<<<"bad.com", "too long">>>>}
RefineServices == {"error"} \cup RefineOutputs
\* the question service raises or answers with text that is no JSON object
\* (error), or with a JSON object
QuestionTexts == [q1 |-> "text1", q2 |-> "text2", q3 |-> "text3"]
QuestionKeyLists ==
  {<<>>, <<"q1">>, <<"q2">>, <<"q1", "q2">>, <<"q2", "q1">>, <<"q1", "q2", "q3">>}
RefineQuestionOutputs ==
  {[kind |-> "error", data |-> <<>>]}
    \cup {[kind |-> "json", data |-> [i \in 1..Len(ks) |-> <<ks[i], QuestionTexts[ks[i]]>>]] :
            ks \in QuestionKeyLists}

RefineCall ==
  /\ rf.pc = "idle"
  /\ \E brief \in Briefs, liked \in RefineLiked, disliked \in RefineDisliked,
        taken \in SeqsUpTo(Names, 1), service \in RefineServices :
       LET refined == refine_brief(brief, liked, taken, disliked, service)
       IN rf' = [rf EXCEPT !.pc = "refined", !.brief = brief, !.liked = liked,
                           !.taken = taken, !.disliked = disliked,
                           !.service = service, !.new_brief = refined[1],
                           !.summary = refined[2], !.called = refined[3]]
  /\ UNCHANGED <<persist, files, _cache, session_state, checker, gen, chk, returned, mc, st, cr, rs, th>>

\* refinement_question_agent.ask(new_brief, summary)
RefineAsk ==
  /\ rf.pc = "refined"
  /\ \E resp \in RefineQuestionOutputs :
       rf' = [rf EXCEPT !.pc = "asked", !.resp = resp,
                        !.asked_with = <<rf.new_brief, rf.summary>>,
                        !.questions = RefinementQuestionAgent_ask(resp)]
  /\ UNCHANGED <<persist, files, _cache, session_state, checker, gen, chk, returned, mc, st, cr, rs, th>>

RefineReturn ==
  /\ rf.pc = "asked"
  /\ rf' = IdleRf
  /\ UNCHANGED <<persist, files, _cache, session_state, checker, gen, chk, returned, mc, st, cr, rs, th>>

NextRefine == RefineCall \/ RefineAsk \/ RefineReturn

SpecRefine == Init /\ [][NextRefine]_vars

\* ------------------------------------------------ the command-line driver
\* main.run_session, started once by the process, in either storage mode
MainBriefs == {"brief", "shop"}
MainAnswers == {"", "yes", "no comment"}

InitMain ==
  /\ InitStore
  /\ persist \in BOOLEAN
  /\ checker = [mode |-> CHECKER_MODE, search_model |-> SEARCH_MODEL,
                bootstrap |-> [loaded |-> FALSE, tld_map |-> {}]]

\* store.new(), the brief the user types, and the counters
RunStart ==
  /\ rs.pc = "idle"
  /\ _write(StoreSid, EmptyBlob)
  /\ \E brief \in MainBriefs :
       rs' = [rs EXCEPT !.pc = "loop", !.session_id = StoreSid,
                        !.initial_brief = brief, !.current_brief = brief,
                        !.failures = 0, !.loop_count = 1,
                        !.last_feedback_summary = <<>>]
  /\ UNCHANGED <<persist, session_state, checker, gen, chk, returned, mc, st, cr, rf, th>>

\* the top of the while loop: the questions of this round, a list of
\* {"id", "text"} dicts
RunAsk ==
  /\ rs.pc = "loop"
  /\ \E resp \in RefineQuestionOutputs :
       rs' = [rs EXCEPT !.pc = "answer",
                        !.questions = IF rs.loop_count = 1 THEN QuestionAgent_ask(resp)
                                      ELSE RefinementQuestionAgent_ask(resp)]
  /\ UNCHANGED <<persist, files, _cache, session_state, checker, gen, chk, returned, mc, st, cr, rf, th>>

\* `q_and_a[q] = input(...) or "no comment"` for the first question: the user
\* types an answer, then the dict q is used as a key of q_and_a
RunAnswer ==
  /\ rs.pc = "answer"
  /\ rs.questions # <<>>
  /\ \E typed \in MainAnswers :
       rs' = [rs EXCEPT !.pc = "raised", !.typed = typed,
                        !.error = "TypeError: unhashable type: 'dict'"]
  /\ UNCHANGED <<persist, files, _cache, session_state, checker, gen, chk, returned, mc, st, cr, rf, th>>

\* with no question to answer: prompt_synthesizer.synthesize(current_brief,
\* q_and_a) lacks the argument question_map
RunSynthesize ==
  /\ rs.pc = "answer"
  /\ rs.questions = <<>>
  /\ rs' = [rs EXCEPT !.pc = "raised",
                      !.error = "TypeError: synthesize() missing 1 required positional argument"]
  /\ UNCHANGED <<persist, files, _cache, session_state, checker, gen, chk, returned, mc, st, cr, rf, th>>

\* `except Exception` of the main block: sys.exit(1)
RunExit ==
  /\ rs.pc = "raised"
  /\ rs' = [rs EXCEPT !.pc = "exited", !.exit_code = 1]
  /\ UNCHANGED <<persist, files, _cache, session_state, checker, gen, chk, returned, mc, st, cr, rf, th>>

NextMain == RunStart \/ RunAsk \/ RunAnswer \/ RunSynthesize \/ RunExit

SpecMain == InitMain /\ [][NextMain]_vars

\* the process runs on and the user answers every prompt
FairSpecMain == SpecMain /\ WF_vars(NextMain)

\* ================================================================== claims
Returned200 == gen.pc = "done" /\ gen.status = 200

C2_PartitionComplete ==
  chk.pc = "done" =>
    /\ KeySet(chk.available) \cap KeySet(chk.taken) = {}
    /\ Len(chk.available) + Len(chk.taken) = Len(chk.candidates)
    /\ KeySet(chk.available) \cup KeySet(chk.taken) = KeySet(chk.candidates)
    /\ IsDict(chk.available) /\ IsDict(chk.taken)

\* a batch of two or more names that was split into both outputs
C2_Witness ==
  /\ chk.pc = "done"
  /\ Len(chk.candidates) >= 2
  /\ chk.available # <<>>
  /\ chk.taken # <<>>

\* C3: Safety bias on error. A name whose oracle call raised or timed out is
\* in taken and not in available, and when the call returns every name of
\* the batch is classified all the same.
C3_ErrorIsTaken ==
  /\ \A x \in chk.errored : x \in KeySet(chk.taken) /\ x \notin KeySet(chk.available)
  /\ (chk.pc = "done" /\ chk.errored # {}) =>
       KeySet(chk.available) \cup KeySet(chk.taken) = KeySet(chk.candidates)

\* the oracle failed for the first name and the second was still found free
C3_Witness ==
  /\ chk.pc = "done"
  /\ Len(chk.candidates) >= 2
  /\ chk.candidates[1][1] \in chk.errored
  /\ chk.candidates[2][1] \in KeySet(chk.available)

\* C4: Safety bias on missing lookup data. A name for whose TLD no lookup
\* server is known (the table has no entry, or could not be loaded) is
\* classified TAKEN.
C4_NoLookupIsTaken ==
  \A x \in chk.nolookup : x \in KeySet(chk.taken) /\ x \notin KeySet(chk.available)

\* C5: Safety bias on ambiguous answers. A name is in available only when
\* the oracle gave a definite not-registered answer for it.
C5_AvailableOnlyIfDefinite == KeySet(chk.available) \subseteq chk.definite

\* C6: On a failure of its service call, check_domains_with_model reports
\* none of the requested domains as available (NOT).
C6_FailureReportsNoneAvailable ==
  (mc.pc = "done" /\ mc.failed) =>
    \A d \in Range(mc.domains) :
      ~(d \in KeySet(mc.result) /\ Get(mc.result, d) = "NOT")

C11_FirstWriteWins ==
  /\ KeySet(history(StoreSid)) = DOMAIN st.first
  /\ \A n \in DOMAIN st.first : Get(history(StoreSid), n) \in st.first[n]
  /\ IsDict(history(StoreSid))

\* a later call classified a name differently from the call that recorded it
C11_Witness ==
  /\ st.reclassified # {}
  /\ Cardinality(DOMAIN st.first) >= 2

C13_AddIsSetUnion ==
  /\ seen(StoreSid) = st.added
  /\ Len(_read(StoreSid).suggested) = Cardinality(st.added)

\* names were passed again, and the Seen Set holds two names
C13_Witness ==
  /\ st.dup
  /\ Cardinality(st.added) >= 2

CrAsked == asked_counts(cr.creators, cr.generation_count)
CrFailed == {tag \in Tags : CrAsked[tag] > 0 /\ cr.responses[tag].kind # "list"}
CrAnswered == {tag \in Tags : CrAsked[tag] > 0 /\ cr.responses[tag].kind = "list"}

RfNoFeedback == rf.liked = <<>> /\ rf.disliked = <<>> /\ rf.taken = <<>>

\* C16: Refinement no-op. refine_brief called with empty liked, empty
\* disliked and empty taken list returns the input brief unchanged with an
\* empty summary and does not call the rewrite service.
C16_RefinementNoOp ==
  (rf.pc # "idle" /\ RfNoFeedback) =>
    /\ rf.new_brief = rf.brief
    /\ rf.summary = EmptySummary
    /\ ~rf.called

\* a refinement with no feedback at all, whose service would have answered
C16_Witness ==
  /\ rf.pc = "refined"
  /\ RfNoFeedback
  /\ rf.service \in RefineOutputs

\* C17: Refinement failure fallback. When the rewrite service fails during
\* refine_brief with non-empty feedback, refine_brief returns the brief it
\* was given, unchanged, with the feedback summary it computed.
C17_RefinementFallback ==
  (rf.pc # "idle" /\ ~RfNoFeedback /\ rf.service = "error") =>
    /\ rf.new_brief = rf.brief
    /\ rf.called
    /\ rf.summary # EmptySummary
    /\ rf.summary = _build_feedback_summary(rf.liked, rf.taken, rf.disliked)

\* the service failed on a refinement with liked and taken names
C17_Witness ==
  /\ rf.pc = "refined"
  /\ rf.service = "error"
  /\ rf.liked # <<>>
  /\ rf.taken # <<>>
  /\ rf.new_brief = rf.brief

\* C18: Every feedback refinement produces exactly two clarifying questions,
\* asked for with the new brief and the feedback summary; when the question
\* service fails or answers without q1 or q2, they are the fixed generic pair.
C18_TwoQuestions ==
  rf.pc = "asked" =>
    /\ Len(rf.questions) = 2
    /\ Keys(rf.questions) = <<"q1", "q2">>
    /\ rf.asked_with = <<rf.new_brief, rf.summary>>
    /\ (rf.resp.kind = "error" \/ ~({"q1", "q2"} \subseteq KeySet(rf.resp.data)))
         => rf.questions = FallbackQuestions
    /\ (rf.resp.kind = "json" /\ {"q1", "q2"} \subseteq KeySet(rf.resp.data))
         => \A i \in 1..2 : rf.questions[i][2] = QuestionTexts[rf.questions[i][1]]

\* the question service answered with one question only, after a rewrite
C18_Witness ==
  /\ rf.pc = "asked"
  /\ rf.resp.kind = "json"
  /\ Len(rf.resp.data) = 1
  /\ rf.questions = FallbackQuestions
  /\ rf.new_brief \in RefineOutputs

\* the session of run_session is over
RsOver == rs.pc \in {"ABORTED", "USER_STOPPED", "raised", "exited"}

\* C19: Failure-cap abort. The session reaches ABORTED in the N-th
\* consecutive round that yields zero AVAILABLE names and in no earlier one:
\* ABORTED is entered only with the failure counter at N, and a session
\* either reaches ABORTED, is stopped by the user, or keeps presenting rounds
\* with AVAILABLE names.
C19_FailureCapAbort ==
  /\ [](rs.pc = "ABORTED" => rs.failures = MAX_LOOP_FAILURES)
  /\ (<>(rs.pc \in {"ABORTED", "USER_STOPPED"}) \/ []<>(rs.pc = "results"))

\* C20: Failure-counter reset. A round with an AVAILABLE name sets the
\* failure counter to 0, so the session goes on after it: unless the user
\* stops it, a session is over only when the failure counter, counted from
\* the last successful round, has reached N.
C20_FailureCounterReset ==
  (RsOver /\ rs.pc # "USER_STOPPED") => rs.failures >= MAX_LOOP_FAILURES

C25_CreateReturns ==
  \A sid \in DOMAIN session_state : session_state[sid].start_status = 200

C23_EmptyRoundGoesOn ==
  [](rs.pc = "loop" /\ rs.loop_count = 1 /\ rs.failures + 1 < MAX_LOOP_FAILURES
       => <>(rs.pc = "results" \/ (rs.pc = "loop" /\ rs.loop_count = 2)))

\* C24: no failure of an external service reaches the session driver as an
\* error: whatever the question service has answered for a session
\* (exception or malformed output), the prompt-synthesis call that
\* submit_answers makes on the session's question map returns a prompt and
\* raises nothing.
C24_NoRawError ==
  \A sid \in DOMAIN session_state :
    \A a \in AnswerPayloads, sv \in SynthOutputs :
      synthesize(session_state[sid].brief, a, session_state[sid].question_map, sv) # "raise"

C26_WitnessMemory ==
  /\ ~persist
  /\ StoreSid \in DOMAIN _cache
  /\ Len(st.ref.suggested) >= 2
  /\ Len(st.ref.history) >= 2

\* C28: the rounds of one session are strictly sequential: while a generate
\* call of a session is in flight, no feedback call of that session is
\* running.
C28_RoundsSequential ==
  ~(/\ th.fb.pc # "idle"
    /\ gen.pc \in {"loop", "create", "add", "filter"}
    /\ gen.sid = th.fb.sid)

\* C29: writers only add. Under any interleaving of an add call and a
\* record_results call on the same session, no step takes a name out of the
\* Seen Set and no step removes or changes an entry of the History, so a
\* reader never sees less than an earlier reader saw.
C29_WritersOnlyAdd ==
  [][/\ seen(StoreSid) \subseteq seen(StoreSid)'
     /\ \A n \in KeySet(history(StoreSid)) :
          /\ n \in KeySet(history(StoreSid)')
          /\ Get(history(StoreSid)', n) = Get(history(StoreSid), n)]_vars

\* what the sentence names of one session: Seen Set, History, brief, loop
\* counter and prompt
SessionView(sid) ==
  [seen |-> seen(sid), history |-> history(sid),
   state |-> IF sid \in DOMAIN session_state
             THEN <<session_state[sid].brief, session_state[sid].loop,
                    session_state[sid].prompt>>
             ELSE <<>>]

PrefixOf(a, b) == Len(a) <= Len(b) /\ \A i \in 1..Len(a) : b[i] = a[i]

C32_FeedbackClearsRound ==
  [][\A sid \in DOMAIN session_state :
       session_state'[sid].feedbacks # session_state[sid].feedbacks
         => /\ session_state'[sid].prompt = NoVal
            /\ ~session_state'[sid].available.set
            /\ ~session_state'[sid].taken.set]_vars

\* C33: submit_answers returns a prompt for every question set a session can
\* hold: in every state of every session some submit_answers call on it
\* completes, whatever keys the question service gave the questions.
C33_AnswersAccepted ==
  \A sid \in DOMAIN session_state :
    ClientIdle =>
      ENABLED (\E a \in AnswerPayloads, sv \in SynthOutputs : submit_answers(sid, a, sv))

\* C34: the session driver has exactly two terminal states: run_session
\* leaves its round loop only in ABORTED or in USER_STOPPED, never through
\* an error.
C34_TwoTerminalStates == rs.pc \notin {"raised", "exited"}

\* C35: a generate call on an existing session that has no prompt is
\* rejected: it is answered with status 400 before any attempt, and from the
\* call to its response nothing of the store and of the session state
\* changes.
C35_NoPromptRejected ==
  [][/\ \A sid \in DOMAIN session_state :
          (/\ gen.pc = "idle" /\ gen'.pc # "idle" /\ gen'.sid = sid
           /\ session_state[sid].prompt \in {NoVal, ""})
            => /\ gen'.pc = "done" /\ gen'.status = 400 /\ gen'.attempts = 0
               /\ UNCHANGED <<files, _cache, session_state>>
     /\ gen.status = 400
          => /\ gen' = IdleGen
             /\ UNCHANGED <<files, _cache, session_state>>]_vars

\* a configured session without a prompt has had its generate call rejected
C35_Witness ==
  /\ gen.pc = "done"
  /\ gen.status = 400
  /\ gen.sid \in DOMAIN session_state
  /\ session_state[gen.sid].settings.set
  /\ session_state[gen.sid].prompt = NoVal

====
